---- MODULE Spec2Model ----
(***************************************************************************)
(* Model of os-matrix: the dense row-major Matrix<T> of src/matrix.rs and  *)
(* the command-line dispatch of src/main.rs.                               *)
(*                                                                         *)
(* A Matrix is the record [num_rows, num_cols, data].  A text is a         *)
(* sequence of one-character strings.  Every fallible operation yields an  *)
(* outcome record whose kind is "ok", "err" (an Err(..) value was          *)
(* returned) or "panic" (the process was aborted by a Rust panic).         *)
(* The element type is the i32 of main.rs; the values of the model stay    *)
(* far inside its range, so + and * are the integer operations.            *)
(***************************************************************************)
EXTENDS Integers, Sequences, FiniteSets, TLC

\* ------------------------------------------------------------------ bounds
\* largest number of elements of a constructor's input
MaxLen == 4
\* largest number of characters of a text given to from_str
MaxText == 4

\* element values the constructors' inputs are drawn from
Elems == {-1, 0}
\* characters the input texts are drawn from
TextChars == {"1", "-", "\t", "\n"}

\* ------------------------------------------------------- sequence helpers
Min(a, b) == IF a < b THEN a ELSE b

\* all sequences over S of length at most n
SeqsUpTo(S, n) == UNION {[1..k -> S] : k \in 0..n}

RECURSIVE SumSeq(_)
\* Iterator::sum over a sequence of integers
SumSeq(s) == IF s = <<>> THEN 0 ELSE Head(s) + SumSeq(Tail(s))

RECURSIVE Concat(_)
\* [[T]]::concat: the rows one after the other
Concat(ss) == IF ss = <<>> THEN <<>> ELSE Head(ss) \o Concat(Tail(ss))

RECURSIVE Join(_, _)
\* [String]::join(sep) on texts
Join(ss, sep) ==
    IF ss = <<>> THEN <<>>
    ELSE IF Len(ss) = 1 THEN Head(ss)
    ELSE Head(ss) \o sep \o Join(Tail(ss), sep)

\* slice::chunks(size) for size > 0: consecutive chunks, the last one shorter
\* when size does not divide the length (size = 0 panics, see rows_panics)
Chunks(s, size) ==
    [i \in 1..((Len(s) + size - 1) \div size) |->
        SubSeq(s, (i - 1) * size + 1, Min(i * size, Len(s)))]

\* Iterator::zip followed by map(|(a, b)| a * b): stops at the shorter one
ZipMul(s, t) == [k \in 1..Min(Len(s), Len(t)) |-> s[k] * t[k]]

\* Iterator::zip followed by map(|(l, r)| l.add(r))
ZipAdd(s, t) == [k \in 1..Min(Len(s), Len(t)) |-> s[k] + t[k]]

\* ---------------------------------------------------------------- outcomes
\* Matrix::new / Default::default
new == [num_rows |-> 0, num_cols |-> 0, data |-> <<>>]

Ok(m) == [kind |-> "ok", err |-> "", m |-> m, seq |-> <<>>]
OkSeq(s) == [kind |-> "ok", err |-> "", m |-> new, seq |-> s]
\* Err(Error(..)) of matrix.rs ("Error") or a boxed ParseIntError
Err(e) == [kind |-> "err", err |-> e, m |-> new, seq |-> <<>>]
Panic == [kind |-> "panic", err |-> "", m |-> new, seq |-> <<>>]

\* ------------------------------------------------------------ constructors
from_1d(num_rows, data) ==
    IF num_rows = 0 THEN Panic                     \* data.len() % 0
    ELSE IF Len(data) % num_rows # 0 THEN Err("Error")
    ELSE Ok([num_rows |-> num_rows,
             num_cols |-> Len(data) \div num_rows,
             data |-> data])

from_2d(data) ==
    IF data = <<>> THEN Ok(new)
    ELSE IF \E i \in 1..Len(data) : Len(data[i]) # Len(data[1])
         THEN Err("Error")
    ELSE Ok([num_rows |-> Len(data),
             num_cols |-> Len(data[1]),
             data |-> Concat(data)])

\* ------------------------------------------------------------- observers
is_empty(m) == m.data = <<>>
dims(m) == <<m.num_rows, m.num_cols>>

\* rows() panics when the chunk size num_cols is 0
rows_panics(m) == m.num_cols = 0
rows(m) == Chunks(m.data, m.num_cols)

\* ------------------------------------------------------------- transpose
\* row[col_index] panics when a chunk is shorter than num_cols
transpose_panics(m) ==
    /\ m.num_cols > 0
    /\ \E i \in 1..Len(rows(m)) : Len(rows(m)[i]) < m.num_cols

\* the two loops exchanged: the elements are pushed row by row
transpose_data_by_rows(m) ==
    IF m.num_cols = 0 THEN <<>> ELSE Concat(rows(m))

transpose_data(m) ==
    IF m.num_cols = 0 THEN <<>>
    ELSE LET rs == rows(m)
         IN  Concat([c \in 1..m.num_cols |-> [r \in 1..Len(rs) |-> rs[r][c]]])

transpose(m) ==
    IF transpose_panics(m) THEN Panic
    ELSE Ok([num_rows |-> m.num_cols,
             num_cols |-> m.num_rows,
             data |-> transpose_data(m)])

\* ------------------------------------------------------------------- dot
\* self.rows() panics when self has no columns (rhs_transpose.rows() is then
\* not reached; otherwise its chunk size is rhs.num_rows = self.num_cols > 0)
dot_panics(lhs_, rhs_) ==
    \/ transpose(rhs_).kind = "panic"
    \/ rows_panics(lhs_)
    \/ rows(lhs_) # <<>> /\ rows_panics(transpose(rhs_).m)

\* for each row of self and each row of the transposed rhs, the sum of the
\* products of the zipped elements
dot_data(lhs_, rhs_) ==
    LET r1 == rows(lhs_)
        r2 == rows(transpose(rhs_).m)
    IN  Concat([i \in 1..Len(r1) |->
                  [j \in 1..Len(r2) |-> SumSeq(ZipMul(r1[i], r2[j]))]])

\* the result given the column count of self instead of that of rhs
dot_with_lhs_cols(lhs_, rhs_) ==
    IF lhs_.num_cols # rhs_.num_rows THEN Err("Error")
    ELSE IF dot_panics(lhs_, rhs_) THEN Panic
    ELSE Ok([num_rows |-> lhs_.num_rows,
             num_cols |-> lhs_.num_cols,
             data |-> dot_data(lhs_, rhs_)])

dot(lhs_, rhs_) ==
    IF lhs_.num_cols # rhs_.num_rows THEN Err("Error")
    ELSE IF dot_panics(lhs_, rhs_) THEN Panic
    ELSE Ok([num_rows |-> lhs_.num_rows,
             num_cols |-> rhs_.num_cols,
             data |-> dot_data(lhs_, rhs_)])

\* ------------------------------------------------------------------- add
\* the dimension test with "and" in place of "or"
add_if_both_differ(lhs_, rhs_) ==
    IF lhs_.num_rows # rhs_.num_rows /\ lhs_.num_cols # rhs_.num_cols
    THEN Err("Error")
    ELSE Ok([num_rows |-> lhs_.num_rows,
             num_cols |-> lhs_.num_cols,
             data |-> ZipAdd(lhs_.data, rhs_.data)])

add(lhs_, rhs_) ==
    IF lhs_.num_rows # rhs_.num_rows \/ lhs_.num_cols # rhs_.num_cols
    THEN Err("Error")
    ELSE Ok([num_rows |-> lhs_.num_rows,
             num_cols |-> lhs_.num_cols,
             data |-> ZipAdd(lhs_.data, rhs_.data)])

\* ---------------------------------------------------------- column_means
\* Rust's integer division: the quotient truncated toward zero (b > 0 here)
\* division rounding toward minus infinity instead
FloorDiv(a, b) == a \div b

TruncDiv(a, b) == IF a >= 0 THEN a \div b ELSE -((-a) \div b)

\* The sum is taken in isize and the quotient cast back with as_: a mean of
\* i32 values lies between the least and the greatest of them, so the cast
\* back to i32 keeps its value.
column_means(m) ==
    LET t == transpose(m)
    IN  IF t.kind = "panic" THEN Panic
        ELSE IF rows_panics(t.m) THEN Panic
        ELSE LET rs == rows(t.m)
             IN  OkSeq([j \in 1..Len(rs) |->
                          TruncDiv(SumSeq(rs[j]), Len(rs[j]))])

\* ------------------------------------------------------------------ texts
Digits == <<"0", "1", "2", "3", "4", "5", "6", "7", "8", "9">>
IsDigit(ch) == \E d \in 1..10 : Digits[d] = ch
DigitVal(ch) == (CHOOSE d \in 1..10 : Digits[d] = ch) - 1
\* the characters of the model for which char::is_whitespace holds
Whitespace == {" ", "\t", "\n"}

RECURSIVE NatToString(_)
NatToString(n) ==
    IF n < 10 THEN <<Digits[n + 1]>>
    ELSE NatToString(n \div 10) \o <<Digits[(n % 10) + 1]>>

\* i32::to_string
to_string(n) == IF n < 0 THEN <<"-">> \o NatToString(-n) ELSE NatToString(n)

\* i32::MAX and i32::MIN
I32Max == 2147483647
I32Min == -I32Max - 1

RECURSIVE DigitsValue(_, _, _)
\* the value of a run of decimal digits read left to right with checked
\* arithmetic, acc being the value read so far; a negative number is
\* accumulated downwards, as from_str_radix does
DigitsValue(s, acc, neg) ==
    IF s = <<>> THEN [ok |-> TRUE, val |-> acc]
    ELSE LET d == DigitVal(Head(s))
         IN  IF neg
             THEN IF acc < (I32Min + d + 9) \div 10
                  THEN [ok |-> FALSE, val |-> 0]
                  ELSE DigitsValue(Tail(s), acc * 10 - d, neg)
             ELSE IF acc > (I32Max - d) \div 10
                  THEN [ok |-> FALSE, val |-> 0]
                  ELSE DigitsValue(Tail(s), acc * 10 + d, neg)

\* str::parse::<i32>: an optional sign, then one or more digits, in range
parse_i32(word) ==
    LET signed == word # <<>> /\ Head(word) \in {"+", "-"}
        body   == IF signed THEN Tail(word) ELSE word
    IN  IF body = <<>> \/ \E k \in 1..Len(body) : ~IsDigit(body[k])
        THEN [ok |-> FALSE, val |-> 0]
        ELSE DigitsValue(body, 0, signed /\ Head(word) = "-")

RECURSIVE SplitOn(_, _, _)
\* the pieces of s between the characters of the set seps, cur being the
\* piece read so far (str::split: n separators, n + 1 pieces)
SplitOn(s, seps, cur) ==
    IF s = <<>> THEN <<cur>>
    ELSE IF Head(s) \in seps THEN <<cur>> \o SplitOn(Tail(s), seps, <<>>)
    ELSE SplitOn(Tail(s), seps, Append(cur, Head(s)))

\* str::lines: split at "\n", a final empty piece is not a line
lines(text) ==
    LET ps == SplitOn(text, {"\n"}, <<>>)
    IN  IF ps[Len(ps)] = <<>> THEN SubSeq(ps, 1, Len(ps) - 1) ELSE ps

\* line.split(char::is_whitespace).filter(|word| !word.is_empty())
words(line) == SelectSeq(SplitOn(line, Whitespace, <<>>), LAMBDA w : w # <<>>)

\* impl FromStr for Matrix
from_str(text) ==
    LET ls     == lines(text)
        parsed == [i \in 1..Len(ls) |->
                     [k \in 1..Len(words(ls[i])) |-> parse_i32(words(ls[i])[k])]]
    IN  IF \E i \in 1..Len(parsed) : \E k \in 1..Len(parsed[i]) : ~parsed[i][k].ok
        THEN Err("ParseIntError")
        ELSE from_2d([i \in 1..Len(parsed) |->
                        [k \in 1..Len(parsed[i]) |-> parsed[i][k].val]])

\* impl Display for Matrix: each row joined by tabs and followed by "\n"
\* the rows written without the newline after each
fmt_without_newline(m) ==
    IF rows_panics(m) THEN Panic
    ELSE LET rs == rows(m)
         IN  OkSeq(Concat([i \in 1..Len(rs) |->
                     Join([k \in 1..Len(rs[i]) |-> to_string(rs[i][k])], <<"\t">>)]))

fmt(m) ==
    IF rows_panics(m) THEN Panic
    ELSE LET rs == rows(m)
         IN  OkSeq(Concat([i \in 1..Len(rs) |->
                     Join([k \in 1..Len(rs[i]) |-> to_string(rs[i][k])], <<"\t">>)
                     \o <<"\n">>]))

\* ------------------------------------------------- the library under a driver
\* A driver builds two matrices with the constructors and then applies the
\* operations to them: pc is its position, lhs and rhs are the matrices it
\* holds, lhs_via is the constructor or operation lhs came from (a transpose
\* keeps it), out is the last call: its name, the matrices it was applied
\* to (a, b), the row count given to from_1d (n), the text given to the
\* parser by Reparse (arg) and its outcome (res).
VARIABLES pc, lhs, rhs, lhs_via, out
\* The command-line utility.  mode is args().nth(1) and matrix_1, matrix_2,
\* printed are matrices, each as an Option: <<>> or <<value>>.  source1 and
\* source2 are the two matrix sources: whether the argument is given (source1
\* is standard input when it is not), whether the file can be read, and its
\* contents.  cli_pc is the position in main, exit the exit status, stdout
\* the text written to standard output, stderr the message written to
\* standard error, printed the matrix handed to println!.
VARIABLES mode, source1, source2, cli_pc, matrix_1, matrix_2, exit, stdout, stderr, printed

lib_vars == <<pc, lhs, rhs, lhs_via, out>>
cli_vars == <<mode, source1, source2, cli_pc, matrix_1, matrix_2, exit, stdout, stderr, printed>>
vars == <<pc, lhs, rhs, lhs_via, out,
          mode, source1, source2, cli_pc, matrix_1, matrix_2, exit, stdout, stderr, printed>>

Call(op, a, b, n, arg, res) ==
    [op |-> op, a |-> a, b |-> b, n |-> n, arg |-> arg, res |-> res]

NoCall == Call("none", new, new, 0, <<>>, Ok(new))

\* inputs of from_1d: flat data
Datas == SeqsUpTo(Elems, MaxLen)
\* inputs of from_2d: rectangular rows, rows whose last one is shorter, rows
\* without elements, and each of these followed by an empty row
RowsBase ==
    {Chunks(d, c) : d \in Datas, c \in 1..MaxLen}
        \cup {[i \in 1..r |-> <<>>] : r \in 0..MaxLen}
Rows2d == RowsBase \cup {Append(rs, <<>>) : rs \in RowsBase}
\* inputs of from_str
Texts == SeqsUpTo(TextChars, MaxText)

\* the driver after a constructor call: an Ok matrix is bound to the next
\* of lhs, rhs; on an Err the driver stops; a panic aborts the run
Built(op, n, res) ==
    /\ out' = Call(op, new, new, n, <<>>, res)
    /\ pc' = IF res.kind = "panic" THEN "aborted"
             ELSE IF res.kind = "err" THEN "stopped"
             ELSE IF pc = "build_lhs" THEN "build_rhs" ELSE "ops"
    /\ lhs' = IF res.kind = "ok" /\ pc = "build_lhs" THEN res.m ELSE lhs
    /\ lhs_via' = IF res.kind = "ok" /\ pc = "build_lhs" THEN op ELSE lhs_via
    /\ rhs' = IF res.kind = "ok" /\ pc = "build_rhs" THEN res.m ELSE rhs
    /\ UNCHANGED cli_vars

Building == pc \in {"build_lhs", "build_rhs"}

New ==
    /\ Building
    /\ Built("new", 0, Ok(new))

From1d ==
    /\ Building
    /\ \E n \in 0..MaxLen, d \in Datas : Built("from_1d", n, from_1d(n, d))

From2d ==
    /\ Building
    /\ \E rs \in Rows2d : Built("from_2d", 0, from_2d(rs))

FromStr ==
    /\ Building
    /\ \E t \in Texts : Built("from_str", 0, from_str(t))

\* the driver after an operation on the matrices it holds
Applied(op, res) ==
    /\ out' = Call(op, lhs, rhs, 0, <<>>, res)
    /\ pc' = IF res.kind = "panic" THEN "aborted" ELSE pc
    /\ UNCHANGED <<lhs, rhs, lhs_via>>
    /\ UNCHANGED cli_vars

Dims ==
    /\ pc = "ops"
    /\ Applied("dims", OkSeq(dims(lhs)))

Transpose ==
    /\ pc = "ops"
    /\ Applied("transpose", transpose(lhs))

Add ==
    /\ pc = "ops"
    /\ Applied("add", add(lhs, rhs))

Dot ==
    /\ pc = "ops"
    /\ Applied("dot", dot(lhs, rhs))

ColumnMeans ==
    /\ pc = "ops"
    /\ Applied("column_means", column_means(lhs))

ToText ==
    /\ pc = "ops"
    /\ Applied("to_text", fmt(lhs))

\* format(M).parse(): the text of the last to_text is parsed again
Reparse ==
    /\ pc = "ops"
    /\ out.op = "to_text" /\ out.res.kind = "ok"
    /\ out' = Call("reparse", out.a, out.b, 0, out.res.seq, from_str(out.res.seq))
    /\ UNCHANGED <<pc, lhs, rhs, lhs_via>>
    /\ UNCHANGED cli_vars

\* the driver goes on with the matrix the last operation returned, as long as
\* it is no larger than the constructors' inputs and holds their values
Take ==
    /\ pc = "ops"
    /\ out.op \in {"transpose", "add", "dot"} /\ out.res.kind = "ok"
    /\ Len(out.res.m.data) <= MaxLen
    /\ out.res.m.num_rows <= MaxLen /\ out.res.m.num_cols <= MaxLen
    /\ \A k \in 1..Len(out.res.m.data) : out.res.m.data[k] \in Elems
    /\ lhs' = out.res.m
    /\ lhs_via' = IF out.op = "transpose" THEN lhs_via ELSE out.op
    /\ out' = NoCall
    /\ UNCHANGED <<pc, rhs>>
    /\ UNCHANGED cli_vars

LibInit ==
    /\ pc = "build_lhs"
    /\ lhs = new /\ rhs = new /\ lhs_via = "new"
    /\ out = NoCall

\* the command-line utility is not run
CliIdle ==
    /\ mode = <<>> /\ cli_pc = "idle"
    /\ source1 = [given |-> FALSE, readable |-> FALSE, text |-> <<>>]
    /\ source2 = [given |-> FALSE, readable |-> FALSE, text |-> <<>>]
    /\ matrix_1 = <<>> /\ matrix_2 = <<>>
    /\ exit = 0 /\ stdout = <<>> /\ stderr = "" /\ printed = <<>>

Init == LibInit /\ CliIdle

Next ==
    \/ New \/ From1d \/ From2d \/ FromStr
    \/ Dims \/ Transpose \/ Add \/ Dot \/ ColumnMeans \/ ToText \/ Reparse
    \/ Take

Spec == Init /\ [][Next]_vars

\* ------------------------------------------------------------ src/main.rs
USAGE_TEXT == "Usage: matrix operation [source1 [source2]]\n"

\* the operation names the runs are started with, one of them unrecognized
ModeNames == {"dims", "transpose", "mean", "add", "multiply", "frobnicate"}
\* the contents the sources are drawn from: no text at all, well-formed
\* matrices of several shapes, a blank line, a token that is no number, rows
\* of different lengths
SourceTexts ==
    { <<>>,
      <<"1">>,
      <<"-", "1", "\t", "1", "\n">>,
      <<"1", "\n", "-", "1", "\n">>,
      <<"1", "\t", "0", "\n", "-", "1", "\t", "1", "\n">>,
      <<"\n">>,
      <<"-">>,
      <<"1", "\t", "1", "\n", "1", "\n">> }

\* matrix_from_file: File::open and read_to_string may fail, then the parse
matrix_from_file(source) ==
    IF ~source.readable THEN Err("io::Error") ELSE from_str(source.text)

\* the run ends: process::exit, a return from main or a panic (status 101)
Exit(code, written, message, m) ==
    /\ cli_pc' = "exited"
    /\ exit' = code
    /\ stdout' = written
    /\ stderr' = message
    /\ printed' = m
    /\ UNCHANGED <<mode, source1, source2, matrix_1, matrix_2>>
    /\ UNCHANGED lib_vars

\* usage(): the usage text on standard error, then process::exit(1)
usage == Exit(1, <<>>, USAGE_TEXT, <<>>)

\* println!("{}", m) of a matrix m: Display, then a newline
println_matrix(m) ==
    IF fmt(m).kind = "panic"
    THEN Exit(101, <<>>, "panic in Matrix::rows", <<>>)
    ELSE Exit(0, fmt(m).seq \o <<"\n">>, "", <<m>>)

\* println!("{}", result.unwrap()) of an operation's outcome
println_unwrap(res) ==
    IF res.kind = "panic" THEN Exit(101, <<>>, "panic in Matrix::rows", <<>>)
    ELSE IF res.kind = "err" THEN Exit(101, <<>>, "called unwrap on an Err", <<>>)
    ELSE println_matrix(res.m)

\* let mode = match args().nth(1) { Some(mode) => mode, None => usage() }
ReadMode ==
    /\ cli_pc = "mode"
    /\ IF mode = <<>> THEN usage
       ELSE /\ cli_pc' = "matrix_1"
            /\ UNCHANGED <<mode, source1, source2, matrix_1, matrix_2,
                           exit, stdout, stderr, printed>>
            /\ UNCHANGED lib_vars

\* let matrix_1 = matrix_from_file(..).expect("Error parsing matrix 1")
ReadMatrix1 ==
    /\ cli_pc = "matrix_1"
    /\ LET res == matrix_from_file(source1)
       IN  IF res.kind # "ok"
           THEN Exit(101, <<>>, "Error parsing matrix 1", <<>>)
           ELSE /\ matrix_1' = <<res.m>>
                /\ cli_pc' = "matrix_2"
                /\ UNCHANGED <<mode, source1, source2, matrix_2,
                               exit, stdout, stderr, printed>>
                /\ UNCHANGED lib_vars

\* let matrix_2_option = args().nth(3).map(matrix_from_file)
\*     .map(|result| result.expect("Error parsing matrix 2"))
ReadMatrix2 ==
    /\ cli_pc = "matrix_2"
    /\ LET res == matrix_from_file(source2)
       IN  IF source2.given /\ res.kind # "ok"
           THEN Exit(101, <<>>, "Error parsing matrix 2", <<>>)
           ELSE /\ matrix_2' = IF source2.given THEN <<res.m>> ELSE <<>>
                /\ cli_pc' = "match"
                /\ UNCHANGED <<mode, source1, source2, matrix_1,
                               exit, stdout, stderr, printed>>
                /\ UNCHANGED lib_vars

\* "dims" => print_dims(matrix_1)
PrintDims ==
    /\ cli_pc = "match" /\ mode = <<"dims">>
    /\ Exit(0, to_string(dims(matrix_1[1])[1]) \o <<" ">>
                   \o to_string(dims(matrix_1[1])[2]) \o <<"\n">>, "", <<>>)

\* "transpose" => print_transpose(matrix_1)
PrintTranspose ==
    /\ cli_pc = "match" /\ mode = <<"transpose">>
    /\ println_matrix(matrix_1[1])

\* "mean" => print_means(matrix_1)
PrintMeans ==
    /\ cli_pc = "match" /\ mode = <<"mean">>
    /\ LET res == column_means(matrix_1[1])
       IN  IF res.kind = "panic"
           THEN Exit(101, <<>>, "panic in Matrix::rows", <<>>)
           ELSE Exit(0, Join([j \in 1..Len(res.seq) |-> to_string(res.seq[j])],
                             <<"\t">>) \o <<"\n">>, "", <<>>)

\* "add" | "multiply" without a second matrix:
\* matrix_2_option.expect("Matrix 2 not provided")
Matrix2Missing ==
    /\ cli_pc = "match" /\ mode \in {<<"add">>, <<"multiply">>}
    /\ matrix_2 = <<>>
    /\ Exit(101, <<>>, "Matrix 2 not provided", <<>>)

\* "add" => print_add(matrix_1, matrix_2)
PrintAdd ==
    /\ cli_pc = "match" /\ mode = <<"add">>
    /\ matrix_2 # <<>>
    /\ println_unwrap(add(matrix_1[1], matrix_2[1]))

\* "multiply" => print_dot(matrix_1, matrix_2)
PrintDot ==
    /\ cli_pc = "match" /\ mode = <<"multiply">>
    /\ matrix_2 # <<>>
    /\ println_unwrap(dot(matrix_1[1], matrix_2[1]))

\* _ => usage()
UnknownMode ==
    /\ cli_pc = "match"
    /\ mode \notin {<<"dims">>, <<"transpose">>, <<"mean">>, <<"add">>, <<"multiply">>}
    /\ usage

\* a run of the utility: any arguments, any sources
CliInit ==
    /\ LibInit
    /\ cli_pc = "mode"
    /\ mode \in {<<>>} \cup {<<name>> : name \in ModeNames}
    /\ source1 \in [given : BOOLEAN, readable : BOOLEAN, text : SourceTexts]
    /\ source2 \in [given : BOOLEAN, readable : BOOLEAN, text : SourceTexts]
    /\ source2.given => source1.given
    /\ matrix_1 = <<>> /\ matrix_2 = <<>>
    /\ exit = 0 /\ stdout = <<>> /\ stderr = "" /\ printed = <<>>

CliNext ==
    \/ ReadMode \/ ReadMatrix1 \/ ReadMatrix2
    \/ PrintDims \/ PrintTranspose \/ PrintMeans
    \/ Matrix2Missing \/ PrintAdd \/ PrintDot \/ UnknownMode

SpecCli == CliInit /\ [][CliNext]_vars

\* ---------------------------------------------------------------- properties
\* the element at row r, column c (both from 0) of a row-major matrix
At(m, r, c) == m.data[r * m.num_cols + c + 1]
\* the sum of column c (from 0)
ColumnSum(m, c) == SumSeq([r \in 1..m.num_rows |-> At(m, r - 1, c)])
\* the sum over k of a[i][k] * b[k][j]
DotSum(a, b, i, j) == SumSeq([k \in 1..a.num_cols |-> At(a, i, k - 1) * At(b, k - 1, j)])
LengthInv(m) == Len(m.data) = m.num_rows * m.num_cols

\* C1: every core operation returns a result or an error value; none of
\* them panics, on any input (from_1d with a row count of 0 and matrices
\* with zero rows or columns included).
C1_NoPanic == out.res.kind # "panic"

\* C2: every matrix reached by constructions followed by transposes, adds
\* and dots has a data length equal to num_rows * num_cols.
C2_LengthInvariant ==
    /\ LengthInv(lhs)
    /\ LengthInv(rhs)
    /\ out.res.kind = "ok" => LengthInv(out.res.m)

\* a dot product whose result was taken up by the driver, added to again
C2_Witness ==
    /\ lhs_via = "dot" /\ Len(lhs.data) = 4
    /\ out.op = "add" /\ out.res.kind = "ok"

\* C4: dot fails with the matrix Error (the DimensionError) when
\* lhs.num_cols # rhs.num_rows, and otherwise returns the
\* lhs.num_rows x rhs.num_cols matrix whose element (i, j) is the sum over k
\* of lhs[i][k] * rhs[k][j].
C4_Dot ==
    out.op = "dot" =>
        IF out.a.num_cols # out.b.num_rows
        THEN out.res.kind = "err" /\ out.res.err = "Error"
        ELSE /\ out.res.kind = "ok"
             /\ out.res.m.num_rows = out.a.num_rows
             /\ out.res.m.num_cols = out.b.num_cols
             /\ LengthInv(out.res.m)
             /\ \A i \in 0..(out.a.num_rows - 1), j \in 0..(out.b.num_cols - 1) :
                    At(out.res.m, i, j) = DotSum(out.a, out.b, i, j)

\* C5: add fails with the matrix Error (the DimensionError) exactly when the
\* dimensions differ; otherwise it returns a matrix of the same dimensions
\* holding the sums position by position, and add(lhs, rhs) = add(rhs, lhs).
C5_Add ==
    out.op = "add" =>
        IF dims(out.a) # dims(out.b)
        THEN out.res.kind = "err" /\ out.res.err = "Error"
        ELSE /\ out.res.kind = "ok"
             /\ dims(out.res.m) = dims(out.a)
             /\ Len(out.res.m.data) = Len(out.a.data)
             /\ \A k \in 1..Len(out.a.data) :
                    out.res.m.data[k] = out.a.data[k] + out.b.data[k]
             /\ add(out.b, out.a) = out.res

\* two different matrices with more than one element were added
C5_Witness ==
    /\ out.op = "add" /\ out.res.kind = "ok"
    /\ Len(out.a.data) >= 2 /\ out.a # out.b

\* C6: transpose succeeds on every constructible matrix, the ones with zero
\* rows or columns included; the result has the dimensions swapped and holds
\* at (c, r) the element the matrix holds at (r, c); the matrix is unchanged.
C6_Transpose ==
    out.op = "transpose" =>
        /\ out.res.kind = "ok"
        /\ out.res.m.num_rows = out.a.num_cols
        /\ out.res.m.num_cols = out.a.num_rows
        /\ Len(out.res.m.data) = Len(out.a.data)
        /\ \A r \in 0..(out.a.num_rows - 1), c \in 0..(out.a.num_cols - 1) :
               At(out.res.m, c, r) = At(out.a, r, c)
        /\ lhs = out.a

\* a matrix of two rows and two columns that differs from its transpose
\* was transposed
C6_Witness ==
    /\ out.op = "transpose" /\ out.res.kind = "ok"
    /\ out.a.num_rows = 2 /\ out.a.num_cols = 2
    /\ out.a.data[2] # out.a.data[3]

\* C7: for every matrix with at least one row and one column, formatting
\* succeeds and parsing the text gives the matrix back.
C7_RoundTrip ==
    /\ (out.op = "to_text" /\ out.a.num_rows >= 1 /\ out.a.num_cols >= 1)
           => out.res.kind = "ok"
    /\ (out.op = "reparse" /\ out.a.num_rows >= 1 /\ out.a.num_cols >= 1)
           => out.res.kind = "ok" /\ out.res.m = out.a

\* a matrix of two rows and two columns with a negative element went
\* through the round trip
C7_Witness ==
    /\ out.op = "reparse"
    /\ out.a.num_rows = 2 /\ out.a.num_cols = 2
    /\ \E k \in 1..4 : out.a.data[k] < 0

\* C8: with at least one row, column_means gives num_cols values in column
\* order, the j-th being the sum of column j divided by num_rows and
\* truncated toward zero: the remainder is smaller than num_rows and, unless
\* it is zero, has the sign of the sum.
C8_ColumnMeans ==
    (out.op = "column_means" /\ out.a.num_rows >= 1) =>
        /\ out.res.kind = "ok"
        /\ Len(out.res.seq) = out.a.num_cols
        /\ \A j \in 1..out.a.num_cols :
               LET sum == ColumnSum(out.a, j - 1)
                   rem == sum - out.res.seq[j] * out.a.num_rows
               IN  /\ rem < out.a.num_rows /\ -rem < out.a.num_rows
                   /\ sum >= 0 => rem >= 0
                   /\ sum <= 0 => rem <= 0

\* the means of a matrix with a column whose sum is negative and is not a
\* multiple of the number of rows
C8_Witness ==
    /\ out.op = "column_means" /\ out.res.kind = "ok"
    /\ out.a.num_cols >= 2
    /\ \E j \in 1..out.a.num_cols :
           /\ ColumnSum(out.a, j - 1) < 0
           /\ ColumnSum(out.a, j - 1) % out.a.num_rows # 0

\* C9: a matrix reached through new, from_2d or from_text and transposes
\* whose data is empty has num_rows = 0 and num_cols = 0.
C9_EmptyIsZeroByZero ==
    (lhs_via \in {"new", "from_2d", "from_str"} /\ is_empty(lhs)) =>
        lhs.num_rows = 0 /\ lhs.num_cols = 0

\* C3: run with 'transpose' on a source that parses to M, the utility prints
\* the transpose of M: the printed row c, column r holds M[r][c].
C3_CliTranspose ==
    (cli_pc = "exited" /\ mode = <<"transpose">> /\ printed # <<>>) =>
        /\ printed[1].num_rows = matrix_1[1].num_cols
        /\ printed[1].num_cols = matrix_1[1].num_rows
        /\ \A r \in 0..(matrix_1[1].num_rows - 1), c \in 0..(matrix_1[1].num_cols - 1) :
               At(printed[1], c, r) = At(matrix_1[1], r, c)

\* C10: when the operation name is unrecognized, or is 'add' or 'multiply'
\* without a second source, the run ends with the usage message and a
\* non-zero status, whatever the (readable) sources hold.
C10_UsageOnBadArguments ==
    (/\ cli_pc = "exited"
     /\ mode # <<>>
     /\ source1.readable /\ (source2.given => source2.readable)
     /\ \/ mode \notin {<<"dims">>, <<"transpose">>, <<"mean">>, <<"add">>, <<"multiply">>}
        \/ mode \in {<<"add">>, <<"multiply">>} /\ ~source2.given)
        => stderr = USAGE_TEXT /\ exit # 0

====
